---- MODULE Spec2Model ----
(***************************************************************************)
(* Speech-to-Speech Translator (main.py): the TranslationApp window, its   *)
(* SpeechRecognitionThread workers, the queued finished/error signals, the *)
(* translation and synthesis steps run on the event thread, the temporary  *)
(* audio files and the media player.                                       *)
(***************************************************************************)
EXTENDS Integers, Sequences, FiniteSets, TLC

VARIABLES
    source_lang,     \* self.source_lang.currentData()
    target_lang,     \* self.target_lang.currentData()
    input_text,      \* self.input_text (recognized-text pane)
    output_text,     \* self.output_text (translated-text pane)
    button_enabled,  \* self.speak_button.isEnabled()
    button_text,     \* self.speak_button.text()
    speech_thread,   \* self.speech_thread: index into threads, 0 for None
    temp_audio_file, \* self.temp_audio_file: a path, 0 for None
    player_source,   \* self.player.source(): a path, 0 for none
    plays,           \* how often self.player.play() was called
    threads,         \* every SpeechRecognitionThread started so far
    queue,           \* finished/error signals queued to the event thread
    ev,              \* position and locals of the event thread's handler
    fs,              \* the temporary directory: path -> file content
    notices,         \* the QMessageBox.warning notices shown, in order
    closed,          \* closeEvent has run
    crashed,         \* the process was aborted
    selects,         \* how often a language selector was changed
    created          \* the paths NamedTemporaryFile returned, in order

vars == <<source_lang, target_lang, input_text, output_text, button_enabled,
          button_text, speech_thread, temp_audio_file, player_source, plays,
          threads, queue, ev, fs, notices, closed, crashed, selects, created>>

shell == <<input_text, output_text, temp_audio_file, player_source>>

\* ------------------------------------------------------------------ bounds

\* button presses (recognition attempts) in one run of the application
MaxCycles == 2

\* changes of a language selector in one run of the application
MaxSelects == 1

\* the items the user picks among: the two default ones, so that equal codes,
\* swapped codes and a code changed during a cycle all occur
Picks == {"en", "es"}

\* what the recognition service returns for the captures
Utterances == {"hello world", "good night"}

\* ------------------------------------------------------- program constants

\* the codes of the 13 items of both selectors (languages, lines 86-90)
Languages == {"en", "es", "fr", "de", "it", "pt", "ru", "ja", "ko", "zh-CN",
              "mr", "hi", "kn"}

\* item 0 of source_lang
DefaultSource == "en"

\* self.target_lang.setCurrentIndex(1)
DefaultTarget == "es"

\* Python's None, for a thread index or a path
None == 0

\* names tempfile can give a file
Paths == 1..MaxCycles

\* the event thread between two events: no handler is running
Idle == [pc |-> "idle", text |-> "", src |-> "", tgt |-> "", tmp |-> None]

\* ---------------------------------------------------- the external services

\* GoogleTranslator(source, target).translate(text): the service's result
Translate(text, src, tgt) == <<text, src, tgt>>

\* gTTS(text, lang) saved: the audio payload written to the file
Audio(text, lang) == <<text, lang>>

\* no file of that name
NoFile == [exists |-> FALSE, data |-> <<>>]

\* an empty file, as NamedTemporaryFile creates it
EmptyFile == [exists |-> TRUE, data |-> <<>>]

\* the paths of the files of a directory
Files(dir) == {p \in Paths : dir[p].exists}

\* one fixed file name instead of a temporary file
FixedFileName(dir) == {1}

\* NamedTemporaryFile(delete=False, suffix=".mp3"): a name no existing file has
NamedTemporaryFile(dir) == Paths \ Files(dir)

\* how recognizer.listen can end
ListenOutcomes == {"audio", "WaitTimeoutError", "Exception"}

\* how recognizer.recognize_google can end, besides returning a text
RecognizeErrors == {"UnknownValueError", "RequestError", "Exception"}

\* the except clauses of run: the message each exception is reported with
\* (without the text of the exception that two of them append)
ErrorMessage(exc) ==
    CASE exc = "WaitTimeoutError" -> "Listening timed out. Please try again."
      [] exc = "UnknownValueError" -> "Speech recognition could not understand audio"
      [] exc = "RequestError" -> "Could not request results from speech recognition service"
      [] OTHER -> "An unexpected error occurred"

\* the workers that hold the microphone (inside the with block of run)
MicHolders == {i \in DOMAIN threads : threads[i].pc \in {"listen", "recognize", "exit"}}

\* the workers whose run has not ended
Running == {i \in DOMAIN threads : threads[i].pc \in {"start", "listen", "recognize", "exit"}}

\* the process runs: the window was not closed and nothing aborted it
Alive == ~closed /\ ~crashed

\* the event loop is free to dispatch the next event
EventLoop == Alive /\ ev.pc = "idle"

\* -------------------------------------------------------------------- Init

Init ==
    /\ source_lang = DefaultSource
    /\ target_lang = DefaultTarget
    /\ input_text = ""
    /\ output_text = <<>>
    /\ button_enabled = TRUE
    /\ button_text = "Speak"
    /\ speech_thread = None
    /\ temp_audio_file = None
    /\ player_source = None
    /\ plays = 0
    /\ threads = <<>>
    /\ queue = <<>>
    /\ ev = Idle
    /\ fs = [p \in Paths |-> NoFile]
    /\ notices = <<>>
    /\ closed = FALSE
    /\ crashed = FALSE
    /\ selects = 0
    /\ created = <<>>

\* ------------------------------------------------- the user, on the window

\* self.source_lang: the user picks another item
ChangeSourceLang ==
    /\ EventLoop
    /\ selects < MaxSelects
    /\ \E c \in Picks \ {source_lang} : source_lang' = c
    /\ selects' = selects + 1
    /\ UNCHANGED <<target_lang, input_text, output_text, button_enabled,
                   button_text, speech_thread, temp_audio_file, player_source,
                   plays, threads, queue, ev, fs, notices, closed, crashed,
                   created>>

\* self.target_lang: the user picks another item
ChangeTargetLang ==
    /\ EventLoop
    /\ selects < MaxSelects
    /\ \E c \in Picks \ {target_lang} : target_lang' = c
    /\ selects' = selects + 1
    /\ UNCHANGED <<source_lang, input_text, output_text, button_enabled,
                   button_text, speech_thread, temp_audio_file, player_source,
                   plays, threads, queue, ev, fs, notices, closed, crashed,
                   created>>

\* SpeechRecognitionThread(language), as start() leaves it
NewThread(language) == [language |-> language, pc |-> "start", emitted |-> <<>>]

\* the button after start_speech_recognition (lines 134-135)
ListeningButton == [enabled |-> FALSE, text |-> "Listening..."]

\* the button if the handlers forgot setEnabled(True)
SpeakButton_StaysDisabled == [enabled |-> FALSE, text |-> "Speak"]

\* the button after a completion notification (lines 139-140, 144-145)
SpeakButton == [enabled |-> TRUE, text |-> "Speak"]

\* start_speech_recognition: the clicked slot of the (enabled) button
StartSpeechRecognition ==
    /\ EventLoop
    /\ button_enabled
    /\ Len(threads) < MaxCycles
    /\ threads' = Append(threads, NewThread(source_lang))
    /\ speech_thread' = Len(threads) + 1
    /\ button_enabled' = ListeningButton.enabled
    /\ button_text' = ListeningButton.text
    /\ UNCHANGED <<source_lang, target_lang, input_text, output_text,
                   temp_audio_file, player_source, plays, queue, ev, fs,
                   notices, closed, crashed, selects, created>>

\* ------------------------------------------- SpeechRecognitionThread.run

\* with sr.Microphone() as source: outside the try, so its exception leaves
\* run uncaught and the process is aborted
OpenMicrophone(i) ==
    /\ Alive
    /\ threads[i].pc = "start"
    /\ \E opened \in BOOLEAN :
         IF opened
         THEN /\ threads' = [threads EXCEPT ![i].pc = "listen"]
              /\ crashed' = crashed
         ELSE /\ threads' = [threads EXCEPT ![i].pc = "raised"]
              /\ crashed' = TRUE
    /\ UNCHANGED <<source_lang, target_lang, input_text, output_text,
                   button_enabled, button_text, speech_thread, temp_audio_file,
                   player_source, plays, queue, ev, fs, notices, closed,
                   selects, created>>

\* self.finished.emit(text) / self.error.emit(message): one queued signal
Emit(i, kind, payload) ==
    /\ queue' = Append(queue, [kind |-> kind, payload |-> payload])
    /\ threads' = [threads EXCEPT ![i].pc = "exit",
                                  ![i].emitted = Append(@, kind)]

\* recognizer.listen(source, timeout=5, phrase_time_limit=10)
Listen(i) ==
    /\ Alive
    /\ threads[i].pc = "listen"
    /\ \E out \in ListenOutcomes :
         IF out = "audio"
         THEN /\ threads' = [threads EXCEPT ![i].pc = "recognize"]
              /\ queue' = queue
         ELSE Emit(i, "error", ErrorMessage(out))
    /\ UNCHANGED <<source_lang, target_lang, input_text, output_text,
                   button_enabled, button_text, speech_thread, temp_audio_file,
                   player_source, plays, ev, fs, notices, closed, crashed,
                   selects, created>>

\* run if it wrote the recognized text into the pane itself
Recognize_SetsPane(i) ==
    /\ Alive
    /\ threads[i].pc = "recognize"
    /\ \/ \E text \in Utterances :
            Emit(i, "finished", text) /\ input_text' = text
       \/ \E exc \in RecognizeErrors :
            Emit(i, "error", ErrorMessage(exc)) /\ input_text' = input_text
    /\ UNCHANGED <<source_lang, target_lang, output_text, button_enabled,
                   button_text, speech_thread, temp_audio_file, player_source,
                   plays, ev, fs, notices, closed, crashed, selects, created>>

\* recognizer.recognize_google(audio, language=self.language)
Recognize(i) ==
    /\ Alive
    /\ threads[i].pc = "recognize"
    /\ \/ \E text \in Utterances : Emit(i, "finished", text)
       \/ \E exc \in RecognizeErrors : Emit(i, "error", ErrorMessage(exc))
    /\ UNCHANGED <<source_lang, target_lang, input_text, output_text,
                   button_enabled, button_text, speech_thread, temp_audio_file,
                   player_source, plays, ev, fs, notices, closed, crashed,
                   selects, created>>

\* what can follow when run returns in thread i: a thread the window no longer
\* refers to is destroyed while still running, which may abort the process
ReturnOutcomes(i) == IF i = speech_thread THEN {FALSE} ELSE {FALSE, TRUE}

\* the with block is left (the microphone is released) and run returns
ReturnFromRun(i) ==
    /\ Alive
    /\ threads[i].pc = "exit"
    /\ threads' = [threads EXCEPT ![i].pc = "done"]
    /\ \E abort \in ReturnOutcomes(i) : crashed' = abort
    /\ UNCHANGED <<source_lang, target_lang, input_text, output_text,
                   button_enabled, button_text, speech_thread, temp_audio_file,
                   player_source, plays, queue, ev, fs, notices, closed,
                   selects, created>>

\* ------------------------------------------- the event thread's handlers

\* QMessageBox.warning(self, title, message)
Warning(title) == notices' = Append(notices, title)

\* the title of the notice of on_speech_error
SpeechErrorTitle == "Speech Recognition Error"

\* the title of the notice of translate_text
TranslationErrorTitle == "Translation Error"

\* generate_and_play_audio without its own try: its exception would reach the
\* except clause of translate_text
AudioErrorTitle_Uncaught == TranslationErrorTitle

\* the title of the notice of generate_and_play_audio
AudioErrorTitle == "Audio Generation Error"

\* on_speech_recognized if it forgot self.input_text.setText(text)
OnSpeechRecognized_KeepsPane ==
    /\ EventLoop
    /\ queue # <<>>
    /\ Head(queue).kind = "finished"
    /\ queue' = Tail(queue)
    /\ button_enabled' = SpeakButton.enabled
    /\ button_text' = SpeakButton.text
    /\ ev' = [Idle EXCEPT !.pc = "translate", !.text = Head(queue).payload,
                          !.src = source_lang, !.tgt = target_lang]
    /\ UNCHANGED <<source_lang, target_lang, input_text, output_text,
                   speech_thread, temp_audio_file, player_source, plays,
                   threads, fs, notices, closed, crashed, selects, created>>

\* on_speech_recognized(text), up to the call of the translation service in
\* translate_text (lines 138-154)
OnSpeechRecognized ==
    /\ EventLoop
    /\ queue # <<>>
    /\ Head(queue).kind = "finished"
    /\ queue' = Tail(queue)
    /\ input_text' = Head(queue).payload
    /\ button_enabled' = SpeakButton.enabled
    /\ button_text' = SpeakButton.text
    /\ ev' = [Idle EXCEPT !.pc = "translate", !.text = Head(queue).payload,
                          !.src = source_lang, !.tgt = target_lang]
    /\ UNCHANGED <<source_lang, target_lang, output_text, speech_thread,
                   temp_audio_file, player_source, plays, threads, fs,
                   notices, closed, crashed, selects, created>>

\* on_speech_error if the error signal were connected to on_speech_recognized
OnSpeechError_AsRecognized ==
    /\ EventLoop
    /\ queue # <<>>
    /\ Head(queue).kind = "error"
    /\ queue' = Tail(queue)
    /\ input_text' = Head(queue).payload
    /\ button_enabled' = SpeakButton.enabled
    /\ button_text' = SpeakButton.text
    /\ ev' = [Idle EXCEPT !.pc = "translate", !.text = Head(queue).payload,
                          !.src = source_lang, !.tgt = target_lang]
    /\ UNCHANGED <<source_lang, target_lang, output_text, speech_thread,
                   temp_audio_file, player_source, plays, threads, fs,
                   notices, closed, crashed, selects, created>>

\* on_speech_error if it also cleared the two text panes
OnSpeechError_ClearsPanes ==
    /\ EventLoop
    /\ queue # <<>>
    /\ Head(queue).kind = "error"
    /\ queue' = Tail(queue)
    /\ button_enabled' = SpeakButton.enabled
    /\ button_text' = SpeakButton.text
    /\ input_text' = ""
    /\ output_text' = <<>>
    /\ Warning(SpeechErrorTitle)
    /\ UNCHANGED <<source_lang, target_lang, speech_thread, temp_audio_file,
                   player_source, plays, threads, ev, fs, closed, crashed,
                   selects, created>>

\* on_speech_error(error_message)
OnSpeechError ==
    /\ EventLoop
    /\ queue # <<>>
    /\ Head(queue).kind = "error"
    /\ queue' = Tail(queue)
    /\ button_enabled' = SpeakButton.enabled
    /\ button_text' = SpeakButton.text
    /\ Warning(SpeechErrorTitle)
    /\ UNCHANGED <<source_lang, target_lang, input_text, output_text,
                   speech_thread, temp_audio_file, player_source, plays,
                   threads, ev, fs, closed, crashed, selects, created>>

\* translate_text if its except clause also cleared the translated-text pane
TranslateReturn_ClearsOutput ==
    /\ Alive
    /\ ev.pc = "translate"
    /\ \E ok \in BOOLEAN :
         IF ok
         THEN /\ output_text' = Translate(ev.text, ev.src, ev.tgt)
              /\ ev' = [ev EXCEPT !.pc = "synth"]
              /\ notices' = notices
         ELSE /\ Warning(TranslationErrorTitle)
              /\ ev' = Idle
              /\ output_text' = <<>>
    /\ UNCHANGED <<source_lang, target_lang, input_text, button_enabled,
                   button_text, speech_thread, temp_audio_file, player_source,
                   plays, threads, queue, fs, closed, crashed, selects,
                   created>>

\* translate_text: translator.translate returns (lines 154-157) or the
\* translator raises (lines 158-159)
TranslateReturn ==
    /\ Alive
    /\ ev.pc = "translate"
    /\ \E ok \in BOOLEAN :
         IF ok
         THEN /\ output_text' = Translate(ev.text, ev.src, ev.tgt)
              /\ ev' = [ev EXCEPT !.pc = "synth"]
              /\ notices' = notices
         ELSE /\ Warning(TranslationErrorTitle)
              /\ ev' = Idle
              /\ output_text' = output_text
    /\ UNCHANGED <<source_lang, target_lang, input_text, button_enabled,
                   button_text, speech_thread, temp_audio_file, player_source,
                   plays, threads, queue, fs, closed, crashed, selects, created>>

\* generate_and_play_audio: gTTS(text, lang) and the creation of the temporary
\* file (lines 163-165); either can raise (lines 171-172)
SynthBegin ==
    /\ Alive
    /\ ev.pc = "synth"
    /\ \/ \E p \in NamedTemporaryFile(fs) :
            /\ fs' = [fs EXCEPT ![p] = EmptyFile]
            /\ created' = Append(created, p)
            /\ ev' = [ev EXCEPT !.pc = "save", !.tmp = p]
            /\ notices' = notices
       \/ /\ Warning(AudioErrorTitle)
          /\ ev' = Idle
          /\ UNCHANGED <<fs, created>>
    /\ UNCHANGED <<source_lang, target_lang, input_text, output_text,
                   button_enabled, button_text, speech_thread, temp_audio_file,
                   player_source, plays, threads, queue, closed, crashed,
                   selects>>

\* generate_and_play_audio if it set the source and never called play()
SaveReturn_NoPlay ==
    /\ Alive
    /\ ev.pc = "save"
    /\ \E ok \in BOOLEAN :
         IF ok
         THEN /\ fs' = [fs EXCEPT ![ev.tmp].data = Audio(output_text, ev.tgt)]
              /\ temp_audio_file' = ev.tmp
              /\ player_source' = ev.tmp
              /\ plays' = plays
              /\ notices' = notices
         ELSE /\ Warning(AudioErrorTitle)
              /\ UNCHANGED <<fs, temp_audio_file, player_source, plays>>
    /\ ev' = Idle
    /\ UNCHANGED <<source_lang, target_lang, input_text, output_text,
                   button_enabled, button_text, speech_thread, threads, queue,
                   closed, crashed, selects, created>>

\* generate_and_play_audio: tts.save(temp_file.name) returns and the file is
\* recorded and played (lines 166-170), or it raises (lines 171-172)
SaveReturn ==
    /\ Alive
    /\ ev.pc = "save"
    /\ \E ok \in BOOLEAN :
         IF ok
         THEN /\ fs' = [fs EXCEPT ![ev.tmp].data = Audio(output_text, ev.tgt)]
              /\ temp_audio_file' = ev.tmp
              /\ player_source' = ev.tmp
              /\ plays' = plays + 1
              /\ notices' = notices
         ELSE /\ Warning(AudioErrorTitle)
              /\ UNCHANGED <<fs, temp_audio_file, player_source, plays>>
    /\ ev' = Idle
    /\ UNCHANGED <<source_lang, target_lang, input_text, output_text,
                   button_enabled, button_text, speech_thread, threads, queue,
                   closed, crashed, selects, created>>

\* closeEvent(event): os.unlink(self.temp_audio_file), whose failure is only
\* printed; the window closes and the application exits
CloseEvent ==
    /\ EventLoop
    /\ \E unlinked \in BOOLEAN :
         fs' = IF temp_audio_file # None /\ unlinked
               THEN [fs EXCEPT ![temp_audio_file] = NoFile]
               ELSE fs
    /\ closed' = TRUE
    /\ UNCHANGED <<source_lang, target_lang, input_text, output_text,
                   button_enabled, button_text, speech_thread, temp_audio_file,
                   player_source, plays, threads, queue, ev, notices,
                   crashed, selects, created>>

\* ------------------------------------------------------ the specification

\* SpeechRecognitionThread.run in thread i
Run(i) ==
    /\ i \in DOMAIN threads
    /\ OpenMicrophone(i) \/ Listen(i) \/ Recognize(i) \/ ReturnFromRun(i)

\* the slots and the blocking calls of the event thread
Handler == OnSpeechRecognized \/ OnSpeechError \/ TranslateReturn
              \/ SynthBegin \/ SaveReturn

Next ==
    \/ ChangeSourceLang
    \/ ChangeTargetLang
    \/ StartSpeechRecognition
    \/ CloseEvent
    \/ \E i \in DOMAIN threads : OpenMicrophone(i)
    \/ \E i \in DOMAIN threads : Listen(i)
    \/ \E i \in DOMAIN threads : Recognize(i)
    \/ \E i \in DOMAIN threads : ReturnFromRun(i)
    \/ OnSpeechRecognized
    \/ OnSpeechError
    \/ TranslateReturn
    \/ SynthBegin
    \/ SaveReturn

Spec == Init /\ [][Next]_vars

\* every worker thread is scheduled, the service calls return and the event
\* loop dispatches the queued signals; the user need not do anything
FairSpec == Spec /\ WF_vars(Handler) /\ \A i \in 1..MaxCycles : WF_vars(Run(i))

\* ------------------------------------------------------------- the claims

\* the shell's two states: the button as Idle and as Listening show it
IdleShell == button_enabled /\ button_text = "Speak" /\ ev.pc = "idle"

\* a recognition attempt was triggered and its completion notification has
\* not been consumed by the event thread: not emitted yet, or still queued
Pending ==
    /\ speech_thread # None
    /\ threads[speech_thread].emitted = <<>> \/ queue # <<>>

\* C1: in every reachable state the trigger button is disabled if and only if
\* a recognition attempt has been triggered and its completion notification
\* has not yet been consumed by the event thread.
C1_DisabledIffPending == (~button_enabled) <=> Pending

\* C1 witness: a second attempt is pending, its notification queued, while the
\* first worker has not yet returned
C1_Witness ==
    /\ Len(threads) = 2
    /\ threads[1].pc = "exit"
    /\ queue # <<>>
    /\ ~button_enabled

\* C2: whenever the shell enters Listening it eventually returns to Idle with
\* the button enabled and labelled 'Speak', for every outcome of the cycle
\* (unless the user closes the window first).
C2_ListeningLeadsToIdle == (~button_enabled /\ ~closed) ~> (IdleShell \/ closed)

\* C3: every run of the Recognition Worker emits exactly one completion
\* notification, finished or error, never both and never none.
C3_ExactlyOneNotification ==
    \A i \in DOMAIN threads :
        /\ Len(threads[i].emitted) <= 1
        /\ threads[i].pc \in {"done", "raised"} => Len(threads[i].emitted) = 1

\* C4: at no time are two Recognition Workers in flight: while a worker's run
\* has not returned and released the microphone, no second worker thread is
\* started or holds the microphone.
C4_OneWorkerInFlight == Cardinality(Running) <= 1 /\ Cardinality(MicHolders) <= 1

\* the handler is inside translate_text or generate_and_play_audio
InCycle == ev.pc \in {"translate", "synth", "save"}

\* C5: the Translation Step starts only after the recognized-text notification
\* of the cycle has been consumed, the Synthesis step only after the
\* Translation Step has returned successfully, playback only after the audio
\* file has been written; a cycle whose recognition failed has no translation
\* and no synthesis.
C5_StepsOrdered ==
    /\ [](InCycle => /\ speech_thread # None
                     /\ threads[speech_thread].emitted = <<"finished">>
                     /\ ~Pending
                     /\ input_text = ev.text)
    /\ [](ev.pc \in {"synth", "save"} =>
              output_text = Translate(input_text, ev.src, ev.tgt))
    /\ [][plays' # plays =>
              /\ ev.pc = "save"
              /\ player_source' \in Files(fs')
              /\ fs'[player_source'].data = Audio(output_text, ev.tgt)]_vars
    /\ [][(queue # <<>> /\ Head(queue).kind = "error") =>
              ~InCycle /\ ~InCycle']_vars

\* C5 witness: synthesis is under way for a recognized and translated text
C5_Witness ==
    /\ ev.pc = "save"
    /\ output_text = Translate(input_text, ev.src, ev.tgt)
    /\ plays = 1

\* a step of the event thread that shows a notice
Notice(title) == notices' = Append(notices, title)

\* C6: a cycle in which recognition, translation and synthesis all succeed
\* ends in Idle with the recognized-text pane holding the recognized utterance,
\* the translated-text pane holding the translation service's result for it
\* under the selected pair of codes, playback started on the new file and the
\* trigger button enabled; the selected codes are two of the 13, equal or not.
C6_SuccessfulCycle ==
    /\ [](source_lang \in Languages /\ target_lang \in Languages)
    /\ [][(ev.pc = "save" /\ ev'.pc = "idle" /\ notices' = notices) =>
              /\ IdleShell'
              /\ threads[speech_thread].emitted = <<"finished">>
              /\ input_text' = ev.text
              /\ input_text' \in Utterances
              /\ output_text' = Translate(input_text', source_lang', target_lang')
              /\ plays' = plays + 1
              /\ player_source' = temp_audio_file'
              /\ player_source' \in Files(fs')
              /\ fs'[player_source'].data = Audio(output_text', target_lang')]_vars

\* C6 witness: a cycle has succeeded with equal source and target codes
C6_Witness ==
    /\ IdleShell
    /\ source_lang = target_lang
    /\ input_text \in Utterances
    /\ output_text = Translate(input_text, source_lang, target_lang)
    /\ plays = 1
    /\ player_source \in Files(fs)

\* the event thread consumes an error notification
ConsumesError == queue # <<>> /\ Head(queue).kind = "error" /\ queue' = Tail(queue)

\* C7: when a recognition attempt ends in a recognition failure the shell
\* shows exactly one notice and re-enables the trigger button, and the two
\* text panes, the recorded artifact path and the player source are as they
\* were before the trigger: the trigger, every step taken while the shell
\* stays Listening, and the consumption of the error leave them unchanged.
C7_RecognitionFailure ==
    /\ [][ConsumesError =>
              /\ Notice(SpeechErrorTitle)
              /\ IdleShell'
              /\ shell' = shell]_vars
    /\ [][(button_enabled /\ ~button_enabled') => shell' = shell /\ notices' = notices]_vars
    /\ [][(~button_enabled /\ ~button_enabled') => shell' = shell /\ notices' = notices]_vars

\* C7 witness: the second attempt failed after a first successful cycle
C7_Witness ==
    /\ Len(threads) = 2
    /\ threads[2].emitted = <<"error">>
    /\ queue = <<>>
    /\ IdleShell
    /\ notices = <<SpeechErrorTitle>>
    /\ input_text \in Utterances
    /\ player_source # None

\* C8: when the translation service fails after a successful recognition the
\* recognized-text pane holds the newly recognized text, the translated-text
\* pane keeps its previous content, exactly one notice is shown, no synthesis
\* is attempted, no audio file is created and the shell is Idle with the
\* button enabled.
C8_TranslationFailure ==
    /\ [][(ev.pc = "idle" /\ ev'.pc = "translate") =>
              /\ input_text' = Head(queue).payload
              /\ ev'.text = input_text'
              /\ output_text' = output_text
              /\ notices' = notices
              /\ fs' = fs]_vars
    /\ [][(ev.pc = "translate" /\ ev'.pc = "idle") =>
              /\ input_text' = ev.text
              /\ output_text' = output_text
              /\ Notice("Translation Error")
              /\ Len(notices') = Len(notices) + 1
              /\ fs' = fs /\ created' = created /\ plays' = plays
              /\ temp_audio_file' = temp_audio_file
              /\ player_source' = player_source
              /\ IdleShell']_vars

\* C8 witness: the translation failed in a second cycle, after a first cycle
\* had filled the translated-text pane with the translation of another text
C8_Witness ==
    /\ IdleShell
    /\ notices = <<"Translation Error">>
    /\ input_text \in Utterances
    /\ output_text # <<>>
    /\ output_text[1] # input_text

\* the handler returns from generate_and_play_audio without the audio written
SynthesisFails ==
    /\ ev'.pc = "idle"
    /\ ev.pc = "synth" \/ (ev.pc = "save" /\ fs'[ev.tmp].data = <<>>)

\* C9: when the synthesis service call or the audio file write fails after a
\* successful translation exactly one notice is shown, a synthesis notice, both
\* text panes show the new recognized and translated text, no playback is
\* started, the recorded artifact path and the player source keep their
\* values, and the shell returns to Idle with the button enabled.
C9_SynthesisFailure ==
    /\ [][(InCycle' /\ ev'.pc # ev.pc) => notices' = notices]_vars
    /\ [][SynthesisFails =>
              /\ Notice("Audio Generation Error")
              /\ temp_audio_file' = temp_audio_file
              /\ input_text' = ev.text
              /\ output_text' = Translate(ev.text, ev.src, ev.tgt)
              /\ plays' = plays
              /\ player_source' = player_source
              /\ IdleShell']_vars

\* C9 witness: the audio file write failed in a second cycle; the player keeps
\* the file of the first cycle
C9_Witness ==
    /\ IdleShell
    /\ notices = <<"Audio Generation Error">>
    /\ Len(created) = 2
    /\ fs[created[2]] = EmptyFile
    /\ player_source = created[1]
    /\ temp_audio_file = created[1]
    /\ output_text = Translate(input_text, source_lang, target_lang)

\* the path of the last file of a sequence of created files that was written
RECURSIVE LastWritten(_, _)
LastWritten(paths, dir) ==
    IF paths = <<>> THEN None
    ELSE IF dir[paths[Len(paths)]].data # <<>> THEN paths[Len(paths)]
    ELSE LastWritten(SubSeq(paths, 1, Len(paths) - 1), dir)

\* C10: each cycle creates a new transient audio file whose path differs from
\* the path of every file created by an earlier cycle, and until shutdown the
\* single player's source is the file of the latest successful cycle, each
\* written file having been played once.
C10_FreshFiles ==
    /\ \A i, j \in DOMAIN created : i # j => created[i] # created[j]
    /\ ~closed => player_source = LastWritten(created, fs)
    /\ ~closed => plays = Cardinality({p \in Paths : fs[p].data # <<>>})

\* C10 witness: two successful cycles, two files, the player on the second
C10_Witness ==
    /\ Len(created) = 2
    /\ plays = 2
    /\ player_source = created[2]
    /\ fs[created[1]].data # <<>>
    /\ fs[created[2]].data # <<>>

\* the unlink of closeEvent did not fail: the recorded file, if any, is gone
UnlinkDone == temp_audio_file = None \/ temp_audio_file \notin Files(fs)

\* C11: at application shutdown, provided file deletion itself does not fail,
\* every transient audio file created during the session has been deleted: no
\* file created by generate_and_play_audio remains.
C11_AllFilesDeleted == (closed /\ UnlinkDone) => Files(fs) = {}

\* a step of a worker thread: the record of a started thread changes
WorkerStep == \E i \in DOMAIN threads : threads'[i] # threads[i]

\* C12: every step of a Recognition Worker thread leaves the shell state
\* unchanged (both text panes, the button's enabled state and label, the
\* language selections, the recorded artifact path, the player source, the
\* files and the notices); its only effect on the event thread is at most one
\* notification appended to the queue, and none once the thread has emitted.
C12_WorkerFrame ==
    [][WorkerStep =>
          /\ UNCHANGED <<input_text, output_text, button_enabled, button_text,
                         source_lang, target_lang, temp_audio_file,
                         player_source, plays, fs, notices, ev, speech_thread>>
          /\ \/ queue' = queue
             \/ /\ Len(queue') = Len(queue) + 1
                /\ SubSeq(queue', 1, Len(queue)) = queue
                /\ \E i \in DOMAIN threads :
                       threads[i].emitted = <<>> /\ threads'[i].emitted # <<>>]_vars

\* C12 witness: a worker has posted a recognized text that is still queued,
\* while the panes show the texts of an earlier cycle
C12_Witness ==
    /\ Len(threads) = 2
    /\ threads[2].emitted = <<"finished">>
    /\ queue # <<>>
    /\ ~button_enabled
    /\ input_text \in Utterances
    /\ input_text # Head(queue).payload

\* the translations of a text, under any pair of codes
TranslationsOf(text) == {Translate(text, s, t) : s \in Languages, t \in Languages}

\* the translated-text pane holds something that is no translation of the text
\* in the recognized-text pane
Mismatch == output_text # <<>> /\ output_text \notin TranslationsOf(input_text)

\* C13 (as claimed): whenever the shell is Idle and the translated-text pane is
\* non-empty, its content is the translation of the utterance currently shown
\* in the recognized-text pane.
C13_PanesAgree == (IdleShell /\ output_text # <<>>) => ~Mismatch

\* C13 (amended): whenever the shell is Idle and the translated-text pane is
\* non-empty, its content is the translation of the utterance shown in the
\* recognized-text pane, unless the translation of that utterance failed: the
\* translated-text pane is only ever written with the translation of the text
\* in the recognized-text pane, and the two disagree in Idle only from a failed
\* translation on, for as long as both panes keep their content.
C13_PanesAgreeUnlessFailed ==
    /\ [][output_text' # output_text =>
              output_text' = Translate(input_text', ev.src, ev.tgt)]_vars
    /\ [][(IdleShell' /\ Mismatch') =>
              IF InCycle
              THEN ev.pc = "translate" /\ Notice("Translation Error")
              ELSE Mismatch /\ UNCHANGED <<input_text, output_text>>]_vars

\* C13 witness: the first cycle was translated and played, the translation of
\* the second cycle's text failed
C13_Witness ==
    /\ IdleShell
    /\ Mismatch
    /\ plays = 1
    /\ Len(threads) = 2
    /\ notices = <<"Translation Error">>

\* C14: within one cycle the source language code passed to the translation
\* service equals the language code that was passed to the Recognition Worker
\* of that cycle, even when the selector is changed while the worker runs.
C14_SameSourceCode == InCycle => ev.src = threads[speech_thread].language

\* C15: in every Idle state before shutdown the recorded artifact path is
\* either unset with no audio file ever created, or names an existing file that
\* is the most recently created one and the player's source.
C15_ArtifactRecorded ==
    (IdleShell /\ Alive) =>
        \/ temp_audio_file = None /\ created = <<>>
        \/ /\ created # <<>>
           /\ temp_audio_file = created[Len(created)]
           /\ temp_audio_file \in Files(fs)
           /\ player_source = temp_audio_file

====
